---- MODULE Spec2Model ----
(***************************************************************************)
(* Trigger ordering of the Ethereum chain adapter                          *)
(* (chain/ethereum/src/trigger.rs): the EthereumTrigger variant, its       *)
(* equality, its Ord implementation, and the sort of one block's triggers  *)
(* that the dispatch loop performs with that order.                        *)
(*                                                                         *)
(*   Spec      starts from three arbitrary triggers.                       *)
(*   SortSpec  starts from a list of triggers collected from one block.    *)
(* In both the triggers are compared pairwise (EthereumTrigger::cmp), and  *)
(* triggers of one block are sorted, and sorted again.                     *)
(*   EqSpec    starts from two arbitrary triggers and tests them for       *)
(*             equality (EthereumTrigger::eq).                             *)
(*   ContextSpec     takes one trigger's block number and error context    *)
(*                   (EthereumTrigger::block_number, ::error_context).     *)
(*   ProjectionSpec  names the handler of one MappingTrigger and projects  *)
(*                   it on a heap (handler_name, to_asc_ptr).              *)
(*   MainSpec        starts the block ingestors and the block stream       *)
(*                   builder of the node (node/src/main.rs).               *)
(*   EqOrdSpec       compares three arbitrary triggers and tests them for  *)
(*                   equality.                                             *)
(*   CheckerSpec     runs the contention checker thread of the node        *)
(*                   against the task that answers its pings.              *)
(***************************************************************************)
EXTENDS Integers, Sequences, FiniteSets

VARIABLES
    \* the triggers at hand, and the position in the steps
    triggers, pc,
    \* results of EthereumTrigger::cmp and of the sort
    ord, sorted, resorted,
    \* results of EthereumTrigger::eq
    equal,
    \* results of EthereumTrigger::block_number and ::error_context
    number, context,
    \* a MappingTrigger, the guest heap, and the results of
    \* MappingTrigger::to_asc_ptr and ::handler_name
    mapping, heap, projected, name,
    \* node start-up: environment and options, the lazy statics, the block
    \* ingestors created
    config, statics, ingestors,
    \* the contention checker thread: the timeout of the wait, the pong
    \* channel, the pings sent, the timed-out waits of the current ping, and
    \* whether GRAPH_KILL_IF_UNRESPONSIVE is set
    timeout, pong, pings, waits, kill_if_unresponsive

ordVars == <<ord, sorted, resorted>>
eqVars == <<equal>>
ctxVars == <<number, context>>
projVars == <<mapping, heap, projected, name>>
mainVars == <<config, statics, ingestors>>
checkVars == <<timeout, pong, pings, waits, kill_if_unresponsive>>

vars == <<triggers, pc, ordVars, eqVars, ctxVars, projVars, mainVars, checkVars>>

\* a group of variables that a specification does not use keeps these values
OrdIdle == ord = <<>> /\ sorted = <<>> /\ resorted = <<>>
EqIdle == equal = <<>>
CtxIdle == number = <<>> /\ context = <<>>
ProjIdle == mapping = <<>> /\ heap = <<>> /\ projected = <<>> /\ name = <<>>
MainIdle == config = <<>> /\ statics = <<>> /\ ingestors = {}
CheckIdle ==
    /\ timeout = <<>> /\ pong = <<>> /\ pings = 0 /\ waits = 0
    /\ kill_if_unresponsive = FALSE

(***************************************************************************)
(* Bounds of the model.                                                    *)
(***************************************************************************)
\* longest list of triggers collected from one block
MaxTriggers == 3
\* transaction indices are 0..MaxTxIndex
MaxTxIndex == 1
\* log indices are 0..MaxLogIndex
MaxLogIndex == 1

(***************************************************************************)
(* Values.  Option<T> is None or Some(v).                                  *)
(***************************************************************************)
None == <<>>
Some(v) == <<v>>
IsSome(o) == o # None
unwrap(o) == o[1]

Addresses == {"a1", "a2"}
\* BlockPtr: the pointers of two different blocks
BlockPtrs == {1, 2}
TxIndexes == 0 .. MaxTxIndex
LogIndexes == 0 .. MaxLogIndex
\* transaction hashes, as many as there are transactions in a block
TxHashes == 0 .. MaxTxIndex

\* enum EthereumBlockTriggerType { Every, WithCallTo(Address) }
EthereumBlockTriggerType ==
    {[tag |-> "Every"]} \cup {[tag |-> "WithCallTo", addr |-> a] : a \in Addresses}

\* EthereumCall: the transaction index the order reads, and the callee as the
\* part of the call the order does not read
EthereumCall == [transaction_index : TxIndexes, to : Addresses]

\* web3 Log: transaction_index, log_index and transaction_hash are Options
Log ==
    [transaction_index : {None} \cup {Some(i) : i \in TxIndexes},
     log_index : {None} \cup {Some(i) : i \in LogIndexes},
     transaction_hash : {Some(h) : h \in TxHashes}]

BlockTrigger(p, k) == [kind |-> "Block", ptr |-> p, filter |-> k]
CallTrigger(c) == [kind |-> "Call", call |-> c]
LogTrigger(l) == [kind |-> "Log", log |-> l]

\* enum EthereumTrigger { Block(BlockPtr, EthereumBlockTriggerType), Call, Log }
EthereumTrigger ==
    {BlockTrigger(p, k) : p \in BlockPtrs, k \in EthereumBlockTriggerType}
        \cup {CallTrigger(c) : c \in EthereumCall}
        \cup {LogTrigger(l) : l \in Log}

\* variant: the derived, structural equality
eq_derived(a, b) == a = b

\* variant: logs told apart by their transaction hash only
eq_log_by_hash(a, b) ==
    IF a.kind = "Block" /\ b.kind = "Block"
    THEN a.ptr = b.ptr /\ a.filter = b.filter
    ELSE IF a.kind = "Call" /\ b.kind = "Call"
    THEN a.call = b.call
    ELSE IF a.kind = "Log" /\ b.kind = "Log"
    THEN a.log.transaction_hash = b.log.transaction_hash
    ELSE FALSE

(***************************************************************************)
(* impl PartialEq for EthereumTrigger                                      *)
(***************************************************************************)
eq(a, b) ==
    IF a.kind = "Block" /\ b.kind = "Block"
    THEN a.ptr = b.ptr /\ a.filter = b.filter
    ELSE IF a.kind = "Call" /\ b.kind = "Call"
    THEN a.call = b.call
    ELSE IF a.kind = "Log" /\ b.kind = "Log"
    THEN a.log.transaction_hash = b.log.transaction_hash
            /\ a.log.log_index = b.log.log_index
    ELSE FALSE

(***************************************************************************)
(* Ordering is Less, Equal or Greater; "Panic" is the unwrap of an absent  *)
(* transaction index.                                                      *)
(***************************************************************************)
Ordering == {"Less", "Equal", "Greater"}

\* u64::cmp
cmp_u64(x, y) == IF x < y THEN "Less" ELSE IF x = y THEN "Equal" ELSE "Greater"

\* Option<U256>::cmp: None is less than every Some
cmp_option(x, y) ==
    IF x = None
    THEN (IF y = None THEN "Equal" ELSE "Less")
    ELSE IF y = None THEN "Greater" ELSE cmp_u64(unwrap(x), unwrap(y))

\* variant: Block triggers ordered by their block pointer
cmp_block_block_by_ptr(a, b) == cmp_u64(a.ptr, b.ptr)

\* (Self::Block(..), Self::Block(..)) => Ordering::Equal
cmp_block_block(a, b) == "Equal"

\* variant: Block triggers first
cmp_block_other_first(a, b) == IF a.kind = "Block" THEN "Less" ELSE "Greater"

\* (Self::Block(..), _) => Greater, (_, Self::Block(..)) => Less
cmp_block_other(a, b) == IF a.kind = "Block" THEN "Greater" ELSE "Less"

\* variant: calls of one transaction told apart by another field
cmp_call_call_then_to(a, b) ==
    IF a.transaction_index = b.transaction_index /\ a.to # b.to
    THEN "Less"
    ELSE cmp_u64(a.transaction_index, b.transaction_index)

\* (Self::Call(a), Self::Call(b)) => a.transaction_index.cmp(&b.transaction_index)
cmp_call_call(a, b) == cmp_u64(a.transaction_index, b.transaction_index)

\* variant: a log index compared with itself
cmp_log_log_self(a, b) == cmp_option(a.log_index, a.log_index)

\* variant: descending log index
cmp_log_log_desc(a, b) == cmp_option(b.log_index, a.log_index)

\* variant: logs ordered by transaction index before log index
cmp_log_log_by_tx(a, b) ==
    IF cmp_option(a.transaction_index, b.transaction_index) # "Equal"
    THEN cmp_option(a.transaction_index, b.transaction_index)
    ELSE cmp_option(a.log_index, b.log_index)

\* (Self::Log(a), Self::Log(b)) => a.log_index.cmp(&b.log_index)
cmp_log_log(a, b) == cmp_option(a.log_index, b.log_index)

\* variant: the guarded arm is missing
cmp_call_log_no_guard(a, b) ==
    IF b.transaction_index = None
    THEN "Panic"
    ELSE cmp_u64(a.transaction_index, unwrap(b.transaction_index))

\* variant: the unguarded arm compares the other way round
cmp_call_log_reversed(a, b) ==
    IF b.transaction_index = None
    THEN "Panic"
    ELSE IF a.transaction_index = unwrap(b.transaction_index)
    THEN "Greater"
    ELSE cmp_u64(unwrap(b.transaction_index), a.transaction_index)

\* variant: the guarded arm gives the result of the opposite arm
cmp_call_log_same_less(a, b) ==
    IF b.transaction_index = None
    THEN "Panic"
    ELSE IF a.transaction_index = unwrap(b.transaction_index)
    THEN "Less"
    ELSE cmp_u64(a.transaction_index, unwrap(b.transaction_index))

\* (Self::Call(a), Self::Log(b)): the guarded arm, then the unguarded one
cmp_call_log(a, b) ==
    IF b.transaction_index = None
    THEN "Panic"
    ELSE IF a.transaction_index = unwrap(b.transaction_index)
    THEN "Greater"
    ELSE cmp_u64(a.transaction_index, unwrap(b.transaction_index))

\* variant: the guarded arm is missing
cmp_log_call_no_guard(a, b) ==
    IF a.transaction_index = None
    THEN "Panic"
    ELSE cmp_u64(unwrap(a.transaction_index), b.transaction_index)

\* variant: calls before the events of their transaction
cmp_log_call_call_first(a, b) ==
    IF a.transaction_index = None
    THEN "Panic"
    ELSE IF unwrap(a.transaction_index) = b.transaction_index
    THEN "Greater"
    ELSE cmp_u64(unwrap(a.transaction_index), b.transaction_index)

\* (Self::Log(a), Self::Call(b)): the guarded arm, then the unguarded one
cmp_log_call(a, b) ==
    IF a.transaction_index = None
    THEN "Panic"
    ELSE IF unwrap(a.transaction_index) = b.transaction_index
    THEN "Less"
    ELSE cmp_u64(unwrap(a.transaction_index), b.transaction_index)

\* impl Ord for EthereumTrigger: fn cmp(&self, other: &Self) -> Ordering
cmp(a, b) ==
    IF a.kind = "Block" /\ b.kind = "Block" THEN cmp_block_block(a, b)
    ELSE IF a.kind = "Block" \/ b.kind = "Block" THEN cmp_block_other(a, b)
    ELSE IF a.kind = "Call" /\ b.kind = "Call" THEN cmp_call_call(a.call, b.call)
    ELSE IF a.kind = "Log" /\ b.kind = "Log" THEN cmp_log_log(a.log, b.log)
    ELSE IF a.kind = "Call" THEN cmp_call_log(a.call, b.log)
    ELSE cmp_log_call(a.log, b.call)

(***************************************************************************)
(* The stable sort of the dispatch loop (a slice sort by Ord::cmp):        *)
(* insertion from the left, an element moves ahead of its predecessor      *)
(* only while it compares Less.                                            *)
(***************************************************************************)
RECURSIVE insert_tail(_, _)
insert_tail(s, x) ==
    IF s = <<>> THEN <<x>>
    ELSE IF cmp(x, s[Len(s)]) = "Less"
    THEN Append(insert_tail(SubSeq(s, 1, Len(s) - 1), x), s[Len(s)])
    ELSE Append(s, x)

RECURSIVE sort(_)
sort(s) ==
    IF s = <<>> THEN <<>>
    ELSE insert_tail(sort(SubSeq(s, 1, Len(s) - 1)), s[Len(s)])

(***************************************************************************)
(* The triggers of one block.  A block's logs are numbered in transaction  *)
(* order: logTx[l] is the transaction index of the log with log index l,   *)
(* and a transaction's hash is determined by its index.                    *)
(***************************************************************************)
BlockLayouts ==
    {f \in [LogIndexes -> TxIndexes] :
        \A i, j \in LogIndexes : i <= j => f[i] <= f[j]}

TxHashOf(i) == i

TriggersOfBlock(p, logTx) ==
    {BlockTrigger(p, k) : k \in EthereumBlockTriggerType}
        \cup {CallTrigger(c) : c \in EthereumCall}
        \cup {LogTrigger([transaction_index |-> Some(logTx[l]),
                          log_index |-> Some(l),
                          transaction_hash |-> Some(TxHashOf(logTx[l]))]) :
                 l \in LogIndexes}

SeqsUpTo(S, n) == UNION {[1 .. k -> S] : k \in 0 .. n}

(***************************************************************************)
(* Triggers of one block (data model): the Block triggers point at the     *)
(* same block; every log has its transaction index and log index; the log  *)
(* index is the position of the log in the block, so it identifies the     *)
(* log and grows with the transaction index; a transaction has one hash.   *)
(***************************************************************************)
LogsOf(S) == {t.log : t \in {u \in S : u.kind = "Log"}}

OneBlock(S) ==
    /\ \A a, b \in {t \in S : t.kind = "Block"} : a.ptr = b.ptr
    /\ \A l \in LogsOf(S) : IsSome(l.transaction_index) /\ IsSome(l.log_index)
    /\ \A l, m \in LogsOf(S) :
          /\ unwrap(l.transaction_index) < unwrap(m.transaction_index)
                => unwrap(l.log_index) < unwrap(m.log_index)
          /\ l.log_index = m.log_index => l = m
          /\ (l.transaction_index = m.transaction_index)
                <=> (l.transaction_hash = m.transaction_hash)

Range(s) == {s[i] : i \in DOMAIN s}

(***************************************************************************)
(* Operations.  The triggers are compared pairwise; the dispatch loop      *)
(* sorts the triggers of one block, and the sorted list is sorted again.   *)
(***************************************************************************)
Compare ==
    /\ pc = "collected"
    /\ ord' = [i \in DOMAIN triggers |->
                 [j \in DOMAIN triggers |-> cmp(triggers[i], triggers[j])]]
    /\ pc' = "compared"
    /\ UNCHANGED <<triggers, sorted, resorted, eqVars, ctxVars, projVars, mainVars, checkVars>>

Sort ==
    /\ pc = "compared"
    /\ OneBlock(Range(triggers))
    /\ sorted' = sort(triggers)
    /\ pc' = "sorted"
    /\ UNCHANGED <<triggers, ord, resorted, eqVars, ctxVars, projVars, mainVars, checkVars>>

Resort ==
    /\ pc = "sorted"
    /\ resorted' = sort(sorted)
    /\ pc' = "resorted"
    /\ UNCHANGED <<triggers, ord, sorted, eqVars, ctxVars, projVars, mainVars, checkVars>>

Next == Compare \/ Sort \/ Resort

(***************************************************************************)
(* Spec: three arbitrary triggers.                                         *)
(***************************************************************************)
Init ==
    /\ triggers \in [1 .. 3 -> EthereumTrigger]
    /\ ord = <<>>
    /\ sorted = <<>>
    /\ resorted = <<>>
    /\ pc = "collected"
    /\ EqIdle /\ CtxIdle /\ ProjIdle /\ MainIdle /\ CheckIdle

Spec == Init /\ [][Next]_vars

(***************************************************************************)
(* SortSpec: a list of triggers collected from one block.                  *)
(***************************************************************************)
SortInit ==
    /\ \E p \in BlockPtrs, logTx \in BlockLayouts :
          triggers \in SeqsUpTo(TriggersOfBlock(p, logTx), MaxTriggers)
    /\ ord = <<>>
    /\ sorted = <<>>
    /\ resorted = <<>>
    /\ pc = "collected"
    /\ EqIdle /\ CtxIdle /\ ProjIdle /\ MainIdle /\ CheckIdle

SortSpec == SortInit /\ [][Next]_vars

\* the types of Spec and SortSpec
TypeOK ==
    /\ pc \in {"collected", "compared", "sorted", "resorted"}
    /\ \A i \in DOMAIN triggers : triggers[i] \in EthereumTrigger
    /\ pc # "collected" =>
          \A i, j \in DOMAIN triggers : ord[i][j] \in Ordering \cup {"Panic"}

LessOrEqual == {"Less", "Equal"}

\* the comparisons have been made
Compared == pc \in {"compared", "sorted", "resorted"}

\* the triggers have been sorted
Sorted == pc \in {"sorted", "resorted"}

IsBlockTrigger(t) == t.kind = "Block"

\* In SortSpec every collected list is a list of triggers of one block.
SortInputOneBlock == OneBlock(Range(triggers))

(***************************************************************************)
(* C2: the comparison is transitive on the triggers of one block: if       *)
(* cmp(a,b) and cmp(b,c) are Less or Equal, then cmp(a,c) is Less or Equal.*)
(***************************************************************************)
C2_Transitive ==
    (Compared /\ OneBlock(Range(triggers)))
        => ((ord[1][2] \in LessOrEqual /\ ord[2][3] \in LessOrEqual)
                => ord[1][3] \in LessOrEqual)

\* a log, a call of a later transaction and a log of a still later one
C2_Witness ==
    /\ Compared
    /\ OneBlock(Range(triggers))
    /\ triggers[1].kind = "Log" /\ triggers[2].kind = "Call" /\ triggers[3].kind = "Log"
    /\ ord[1][2] = "Less" /\ ord[2][3] = "Less" /\ ord[1][3] = "Less"

(***************************************************************************)
(* C3: a Log and a Call of the same transaction index: cmp(Log, Call) is   *)
(* Less and cmp(Call, Log) is Greater, and the sort of one block's         *)
(* triggers places the Log before the Call.                                *)
(***************************************************************************)
C3_LogBeforeCall ==
    /\ (/\ Compared
        /\ triggers[1].kind = "Log" /\ triggers[2].kind = "Call"
        /\ triggers[1].log.transaction_index
              = Some(triggers[2].call.transaction_index))
           => (ord[1][2] = "Less" /\ ord[2][1] = "Greater")
    /\ Sorted =>
          \A i, j \in DOMAIN sorted :
              (/\ sorted[i].kind = "Log" /\ sorted[j].kind = "Call"
               /\ sorted[i].log.transaction_index
                     = Some(sorted[j].call.transaction_index))
                  => i < j

\* a call collected before a log of its transaction, compared and sorted
C3_Witness ==
    /\ pc = "sorted"
    /\ triggers[2].kind = "Log" /\ triggers[1].kind = "Call"
    /\ triggers[2].log.transaction_index = Some(triggers[1].call.transaction_index)
    /\ ord[2][1] = "Less" /\ ord[1][2] = "Greater"
    /\ sorted[1] = triggers[2]

(***************************************************************************)
(* C4: a Block trigger against a Call or Log trigger: cmp(Block, T) is     *)
(* Greater and cmp(T, Block) is Less, and in the sorted triggers of one     *)
(* block every Call and Log trigger precedes every Block trigger.          *)
(***************************************************************************)
C4_BlockLast ==
    /\ (/\ Compared
        /\ triggers[1].kind = "Block" /\ triggers[2].kind \in {"Call", "Log"})
           => (ord[1][2] = "Greater" /\ ord[2][1] = "Less")
    /\ Sorted =>
          \A i, j \in DOMAIN sorted :
              (sorted[i].kind # "Block" /\ sorted[j].kind = "Block") => i < j

\* a block trigger collected before a log and a call, compared and sorted
C4_Witness ==
    /\ pc = "sorted"
    /\ triggers[1].kind = "Block" /\ triggers[2].kind = "Log" /\ triggers[3].kind = "Call"
    /\ ord[1][2] = "Greater" /\ ord[3][1] = "Less"
    /\ sorted[3] = triggers[1]

(***************************************************************************)
(* C6 as stated: among triggers of one block the comparison returns Equal  *)
(* only for two Block triggers: two triggers that are not both Block       *)
(* triggers and are not equal under trigger equality compare Less or       *)
(* Greater.                                                                *)
(***************************************************************************)
C6_EqualOnlyForBlocks ==
    (/\ Compared
     /\ OneBlock({triggers[1], triggers[2]})
     /\ ~(triggers[1].kind = "Block" /\ triggers[2].kind = "Block")
     /\ ~eq(triggers[1], triggers[2]))
        => ord[1][2] \in {"Less", "Greater"}

SameTransactionCalls(a, b) ==
    /\ a.kind = "Call" /\ b.kind = "Call"
    /\ a.call.transaction_index = b.call.transaction_index

(***************************************************************************)
(* C6 amended: among triggers of one block the comparison returns Equal    *)
(* only for two Block triggers, for two Call triggers of the same          *)
(* transaction index, and for triggers equal under trigger equality; any   *)
(* other two triggers compare Less or Greater.                             *)
(***************************************************************************)
C6_EqualOnlyForBlocksOrSameTxCalls ==
    (/\ Compared
     /\ OneBlock({triggers[1], triggers[2]})
     /\ ~(triggers[1].kind = "Block" /\ triggers[2].kind = "Block")
     /\ ~SameTransactionCalls(triggers[1], triggers[2])
     /\ ~eq(triggers[1], triggers[2]))
        => ord[1][2] \in {"Less", "Greater"}

\* a log and a call of one transaction, and two different logs of it
C6_Witness ==
    /\ Compared
    /\ OneBlock(Range(triggers))
    /\ triggers[1].kind = "Log" /\ triggers[2].kind = "Call" /\ triggers[3].kind = "Log"
    /\ triggers[1].log.transaction_index = Some(triggers[2].call.transaction_index)
    /\ triggers[3].log.transaction_index = triggers[1].log.transaction_index
    /\ ~eq(triggers[1], triggers[3])
    /\ ord[1][2] = "Less" /\ ord[1][3] \in {"Less", "Greater"}

(***************************************************************************)
(* C7: any two Block triggers compare Equal, whatever their block pointer  *)
(* and block filter, and the sort of one block's triggers keeps the Block  *)
(* triggers in their input order.                                          *)
(***************************************************************************)
C7_BlocksEqual ==
    /\ (/\ Compared
        /\ triggers[1].kind = "Block" /\ triggers[2].kind = "Block")
           => (ord[1][2] = "Equal" /\ ord[2][1] = "Equal")
    /\ Sorted =>
          SelectSeq(sorted, IsBlockTrigger) = SelectSeq(triggers, IsBlockTrigger)

\* block triggers of different pointer and filter
C7_Witness ==
    /\ Compared
    /\ triggers[1].kind = "Block" /\ triggers[2].kind = "Block"
    /\ triggers[1].ptr # triggers[2].ptr
    /\ triggers[1].filter # triggers[2].filter
    /\ ord[1][2] = "Equal"

(***************************************************************************)
(* C8: two Call triggers compare as their transaction indices do           *)
(* (ascending), whatever the other fields of the calls.                    *)
(***************************************************************************)
C8_CallsByTransactionIndex ==
    (/\ Compared
     /\ triggers[1].kind = "Call" /\ triggers[2].kind = "Call")
        => LET x == triggers[1].call.transaction_index
               y == triggers[2].call.transaction_index
           IN  /\ x < y => ord[1][2] = "Less"
               /\ x = y => ord[1][2] = "Equal"
               /\ x > y => ord[1][2] = "Greater"

\* two different calls of one transaction, and a call of a later transaction
C8_Witness ==
    /\ Compared
    /\ triggers[1].kind = "Call" /\ triggers[2].kind = "Call" /\ triggers[3].kind = "Call"
    /\ triggers[1].call.transaction_index = triggers[2].call.transaction_index
    /\ triggers[1].call.to # triggers[2].call.to
    /\ triggers[1].call.transaction_index < triggers[3].call.transaction_index
    /\ ord[1][2] = "Equal" /\ ord[1][3] = "Less" /\ ord[3][1] = "Greater"

(***************************************************************************)
(* C9: two Log triggers compare as their log indices do (ascending, an     *)
(* absent log index below every present one), whatever their transaction   *)
(* indices and transaction hashes.                                         *)
(***************************************************************************)
C9_LogsByLogIndex ==
    (/\ Compared
     /\ triggers[1].kind = "Log" /\ triggers[2].kind = "Log")
        => LET x == triggers[1].log.log_index
               y == triggers[2].log.log_index
           IN  /\ (x = None /\ y = None) => ord[1][2] = "Equal"
               /\ (x = None /\ y # None) => ord[1][2] = "Less"
               /\ (x # None /\ y = None) => ord[1][2] = "Greater"
               /\ (x # None /\ y # None) =>
                     /\ x[1] < y[1] => ord[1][2] = "Less"
                     /\ x[1] = y[1] => ord[1][2] = "Equal"
                     /\ x[1] > y[1] => ord[1][2] = "Greater"

\* the log of the later transaction has the lower log index
C9_Witness ==
    /\ Compared
    /\ triggers[1].kind = "Log" /\ triggers[2].kind = "Log"
    /\ triggers[1].log.transaction_index = Some(1)
    /\ triggers[2].log.transaction_index = Some(0)
    /\ triggers[1].log.log_index = Some(0)
    /\ triggers[2].log.log_index = Some(1)
    /\ ord[1][2] = "Less"

(***************************************************************************)
(* C10: a Call and a Log of different transaction indices: the one of the  *)
(* smaller transaction index compares Less than the other, in both         *)
(* argument orders.                                                        *)
(***************************************************************************)
C10_CallLogByTransactionIndex ==
    (/\ Compared
     /\ triggers[1].kind = "Call" /\ triggers[2].kind = "Log"
     /\ IsSome(triggers[2].log.transaction_index)
     /\ triggers[1].call.transaction_index # unwrap(triggers[2].log.transaction_index))
        => LET x == triggers[1].call.transaction_index
               y == unwrap(triggers[2].log.transaction_index)
           IN  /\ x < y => (ord[1][2] = "Less" /\ ord[2][1] = "Greater")
               /\ x > y => (ord[1][2] = "Greater" /\ ord[2][1] = "Less")

\* a call and a log of a later transaction, compared in both argument orders
C10_Witness ==
    /\ Compared
    /\ triggers[1].kind = "Call" /\ triggers[2].kind = "Log"
    /\ triggers[2].log.transaction_index # None
    /\ triggers[1].call.transaction_index < unwrap(triggers[2].log.transaction_index)
    /\ ord[1][2] = "Less" /\ ord[2][1] = "Greater"

(***************************************************************************)
(* Sorting one block's triggers.                                           *)
(***************************************************************************)
\* the lists with the same elements as s, in every order
Permutations(s) ==
    {[i \in DOMAIN s |-> s[f[i]]] :
        f \in {g \in [DOMAIN s -> DOMAIN s] :
                  \A i, j \in DOMAIN s : g[i] = g[j] => i = j}}

\* s with every Block trigger replaced by one token
ModuloBlocks(s) ==
    [i \in DOMAIN s |-> IF s[i].kind = "Block" THEN [kind |-> "Block"] ELSE s[i]]

\* s with every Block trigger replaced by one token and every Call trigger by
\* its transaction index
ModuloTies(s) ==
    [i \in DOMAIN s |->
        IF s[i].kind = "Block" THEN [kind |-> "Block"]
        ELSE IF s[i].kind = "Call"
        THEN [kind |-> "Call", transaction_index |-> s[i].call.transaction_index]
        ELSE s[i]]

(***************************************************************************)
(* C1 as stated: sorting one block's triggers yields the same sequence for *)
(* every order of the input, up to the order of the Block triggers among   *)
(* themselves, and sorting the sorted sequence leaves it unchanged.        *)
(***************************************************************************)
C1_UniqueModuloBlocks ==
    /\ pc = "sorted" =>
          \A p \in Permutations(triggers) :
              ModuloBlocks(sort(p)) = ModuloBlocks(sorted)
    /\ pc = "resorted" => resorted = sorted

(***************************************************************************)
(* C1 amended: sorting one block's triggers yields the same sequence for   *)
(* every order of the input, up to the order of the Block triggers among   *)
(* themselves and of the Call triggers of one transaction index among      *)
(* themselves, and sorting the sorted sequence leaves it unchanged.        *)
(***************************************************************************)
C1_UniqueModuloTies ==
    /\ pc = "sorted" =>
          \A p \in Permutations(triggers) :
              ModuloTies(sort(p)) = ModuloTies(sorted)
    /\ pc = "resorted" => resorted = sorted

\* an unsorted list of a block trigger, a call and a log, sorted twice
C1_Witness ==
    /\ pc = "resorted"
    /\ Len(triggers) = MaxTriggers
    /\ triggers[1].kind = "Block" /\ triggers[2].kind = "Call" /\ triggers[3].kind = "Log"
    /\ sorted # triggers
    /\ resorted = sorted

(***************************************************************************)
(* C5: the sorted sequence of one block's Call and Log triggers has        *)
(* non-decreasing transaction indices.                                     *)
(***************************************************************************)
TransactionIndexOf(t) ==
    IF t.kind = "Call" THEN t.call.transaction_index
    ELSE unwrap(t.log.transaction_index)

C5_TransactionIndexNonDecreasing ==
    (/\ Sorted
     /\ \A i \in DOMAIN triggers : triggers[i].kind \in {"Call", "Log"})
        => \A i, j \in DOMAIN sorted :
              i < j => TransactionIndexOf(sorted[i]) <= TransactionIndexOf(sorted[j])

\* a log of a later transaction collected before a call and a log of an earlier one
C5_Witness ==
    /\ pc = "sorted"
    /\ Len(triggers) = 3
    /\ triggers[1].kind = "Log" /\ triggers[2].kind = "Call" /\ triggers[3].kind = "Log"
    /\ TransactionIndexOf(triggers[1]) > TransactionIndexOf(triggers[2])
    /\ TransactionIndexOf(triggers[2]) = TransactionIndexOf(triggers[3])
    /\ sorted = <<triggers[3], triggers[2], triggers[1]>>

(***************************************************************************)
(* EqSpec: two arbitrary triggers are tested for equality.  The logs carry *)
(* their data, which stands for the fields of a log that the equality      *)
(* does not read (data, address, topics), and an optional transaction hash.*)
(***************************************************************************)
LogData == {"d1", "d2"}

LogWithData ==
    [transaction_index : {None} \cup {Some(i) : i \in TxIndexes},
     log_index : {None} \cup {Some(i) : i \in LogIndexes},
     transaction_hash : {None} \cup {Some(h) : h \in TxHashes},
     data : LogData]

EqTriggers ==
    {BlockTrigger(p, k) : p \in BlockPtrs, k \in EthereumBlockTriggerType}
        \cup {CallTrigger(c) : c \in EthereumCall}
        \cup {LogTrigger(l) : l \in LogWithData}

EqInit ==
    /\ triggers \in [1 .. 2 -> EqTriggers]
    /\ pc = "collected"
    /\ equal = <<>>
    /\ OrdIdle /\ CtxIdle /\ ProjIdle /\ MainIdle /\ CheckIdle

Equate ==
    /\ pc \in {"collected", "compared"}
    /\ equal' = [i \in DOMAIN triggers |->
                   [j \in DOMAIN triggers |-> eq(triggers[i], triggers[j])]]
    /\ pc' = "equated"
    /\ UNCHANGED <<triggers, ordVars, ctxVars, projVars, mainVars, checkVars>>

EqNext == Equate

EqSpec == EqInit /\ [][EqNext]_vars

(***************************************************************************)
(* C11: two triggers are equal exactly when they are of the same kind and, *)
(* for Block triggers, have equal block pointers and equal filters; for    *)
(* Call triggers, have structurally equal calls; for Log triggers, have    *)
(* equal transaction hashes and equal log indices, whatever their data.    *)
(* Triggers of different kinds are never equal.                            *)
(***************************************************************************)
C11_Equality ==
    pc = "equated" =>
        LET a == triggers[1]
            b == triggers[2]
        IN  /\ equal[1][2] \in BOOLEAN
            /\ equal[1][2] <=>
                  \/ /\ a.kind = "Block" /\ b.kind = "Block"
                     /\ a.ptr = b.ptr /\ a.filter = b.filter
                  \/ /\ a.kind = "Call" /\ b.kind = "Call"
                     /\ a.call.transaction_index = b.call.transaction_index
                     /\ a.call.to = b.call.to
                  \/ /\ a.kind = "Log" /\ b.kind = "Log"
                     /\ a.log.transaction_hash = b.log.transaction_hash
                     /\ a.log.log_index = b.log.log_index

\* two logs of the same transaction hash and log index that differ in data
C11_Witness ==
    /\ pc = "equated"
    /\ triggers[1].kind = "Log" /\ triggers[2].kind = "Log"
    /\ triggers[1].log.transaction_hash = triggers[2].log.transaction_hash
    /\ triggers[1].log.transaction_hash # None
    /\ triggers[1].log.log_index = triggers[2].log.log_index
    /\ triggers[1].log.data # triggers[2].log.data
    /\ equal[1][2]

(***************************************************************************)
(* ContextSpec: EthereumTrigger::block_number, ::block_hash and            *)
(* TriggerData::error_context of one trigger.                              *)
(*                                                                         *)
(* A call returns its value or panics.  A U64 is four 16-bit limbs, most   *)
(* significant first; a BlockNumber is an i32.                             *)
(***************************************************************************)
Ok(v) == [tag |-> "Ok", val |-> v]
Panicked == [tag |-> "Panic"]

U64Values ==
    {<<0, 0, 0, 0>>, <<0, 0, 0, 7>>,
     <<0, 0, 2^15 - 1, 2^16 - 1>>,                   \* i32::MAX
     <<0, 0, 2^15, 0>>,                              \* i32::MAX + 1
     <<0, 0, 2^16 - 1, 2^16 - 1>>,                   \* u32::MAX
     <<0, 1, 0, 7>>,                                 \* 2^32 + 7
     <<2^16 - 1, 2^16 - 1, 2^16 - 1, 2^16 - 1>>}     \* u64::MAX

BlockNumbers == {0, 7}
Hashes == {"h1", "h2"}

\* variant: the narrowing cast, which keeps the low 32 bits
i32_wrapping(v) ==
    Some(IF v[3] < 2^15 THEN v[3] * 2^16 + v[4] ELSE (v[3] - 2^16) * 2^16 + v[4])

\* i32::try_from(u64): the value when it is at most i32::MAX
i32_try_from(v) ==
    IF v[1] = 0 /\ v[2] = 0 /\ v[3] < 2^15 THEN Some(v[3] * 2^16 + v[4]) ELSE None

\* the triggers with the fields that block_number, block_hash and error_context read
ContextTriggers ==
    {BlockTrigger([number |-> n, hash |-> h], k) :
        n \in BlockNumbers, h \in Hashes, k \in EthereumBlockTriggerType}
    \cup {CallTrigger(c) :
            c \in [block_number : BlockNumbers, block_hash : Hashes,
                   transaction_hash : {None} \cup {Some(h) : h \in Hashes}]}
    \cup {LogTrigger(l) :
            l \in [block_number : {None} \cup {Some(v) : v \in U64Values},
                   block_hash : {None} \cup {Some(h) : h \in Hashes},
                   transaction_hash : {None} \cup {Some(h) : h \in Hashes}]}

\* pub fn block_number(&self) -> BlockNumber
block_number(t) ==
    IF t.kind = "Block" THEN Ok(t.ptr.number)
    ELSE IF t.kind = "Call" THEN Ok(t.call.block_number)
    ELSE IF t.log.block_number = None THEN Panicked
    ELSE IF i32_try_from(unwrap(t.log.block_number)) = None THEN Panicked
    ELSE Ok(unwrap(i32_try_from(unwrap(t.log.block_number))))

\* pub fn block_hash(&self) -> H256
block_hash(t) ==
    IF t.kind = "Block" THEN Ok(t.ptr.hash)
    ELSE IF t.kind = "Call" THEN Ok(t.call.block_hash)
    ELSE IF t.log.block_hash = None THEN Panicked
    ELSE Ok(unwrap(t.log.block_hash))

\* the renderings of a hash by "{}" and by "{:x}"
Display(h) == [fmt |-> "{}", hash |-> h]
LowerHex(h) == [fmt |-> "{:x}", hash |-> h]

\* format!("block #{} ({}), transaction {:x}", n, hash, tx_hash)
format_context(n, hash, tx_hash) ==
    <<"block #", n, " (", Display(hash), "), transaction ", LowerHex(tx_hash)>>

\* String::new()
EmptyString == <<>>

\* let transaction_id = match self { .. }
transaction_id(t) ==
    IF t.kind = "Log" THEN t.log.transaction_hash
    ELSE IF t.kind = "Call" THEN t.call.transaction_hash
    ELSE None

\* variant: the transaction of a trigger without transaction hash rendered as zero
error_context_always(t) ==
    IF t.kind = "Block" THEN Ok(EmptyString)
    ELSE IF block_number(t) = Panicked \/ block_hash(t) = Panicked THEN Panicked
    ELSE Ok(format_context(block_number(t).val, block_hash(t).val,
                           IF transaction_id(t) = None THEN "0"
                           ELSE unwrap(transaction_id(t))))

\* fn error_context(&self) -> String
error_context(t) ==
    IF transaction_id(t) = None THEN Ok(EmptyString)
    ELSE IF block_number(t) = Panicked \/ block_hash(t) = Panicked THEN Panicked
    ELSE Ok(format_context(block_number(t).val, block_hash(t).val,
                           unwrap(transaction_id(t))))

ContextInit ==
    /\ triggers \in [1 .. 1 -> ContextTriggers]
    /\ pc = "collected"
    /\ number = <<>>
    /\ context = <<>>
    /\ OrdIdle /\ EqIdle /\ ProjIdle /\ MainIdle /\ CheckIdle

BlockNumber ==
    /\ pc = "collected"
    /\ number' = block_number(triggers[1])
    /\ pc' = "numbered"
    /\ UNCHANGED <<triggers, context, ordVars, eqVars, projVars, mainVars, checkVars>>

ErrorContext ==
    /\ pc \in {"collected", "numbered"}
    /\ context' = error_context(triggers[1])
    /\ pc' = "rendered"
    /\ UNCHANGED <<triggers, number, ordVars, eqVars, projVars, mainVars, checkVars>>

ContextNext == BlockNumber \/ ErrorContext

ContextSpec == ContextInit /\ [][ContextNext]_vars

(***************************************************************************)
(* C12: block_number() returns the block pointer's number for a Block      *)
(* trigger and the call's block number for a Call trigger; for a Log       *)
(* trigger it returns the log's block number when that is at most 2^31-1   *)
(* and fails otherwise, never returning a wrapped value.                   *)
(***************************************************************************)
\* a U64 of four 16-bit limbs is at most 2^31 - 1
AtMostI32Max(v) == v[1] = 0 /\ v[2] = 0 /\ v[3] <= 2^15 - 1

C12_BlockNumber ==
    pc = "numbered" =>
        LET t == triggers[1]
        IN  /\ t.kind = "Block" => number = Ok(t.ptr.number)
            /\ t.kind = "Call" => number = Ok(t.call.block_number)
            /\ (t.kind = "Log" /\ t.log.block_number # None) =>
                  LET v == t.log.block_number[1]
                  IN  IF AtMostI32Max(v)
                      THEN number = Ok(v[3] * (2^16) + v[4])
                      ELSE number = Panicked

\* a log of block 2^32 + 7, whose low 32 bits are 7
C12_Witness ==
    /\ pc = "numbered"
    /\ triggers[1].kind = "Log"
    /\ triggers[1].log.block_number = Some(<<0, 1, 0, 7>>)
    /\ number = Panicked

(***************************************************************************)
(* C13 as stated: error_context() returns the empty string for every Block *)
(* trigger, and for every Log or Call trigger the text                     *)
(* "block #<n> (<hash>), transaction <tx_hash_hex>" of that trigger's      *)
(* block number, block hash and transaction hash.  The logs are those that *)
(* have their block number and block hash (data model).                    *)
(***************************************************************************)
C13_ErrorContext ==
    pc = "rendered" =>
        LET t == triggers[1]
        IN  /\ t.kind = "Block" => context = Ok(EmptyString)
            /\ (\/ t.kind = "Call"
                \/ /\ t.kind = "Log"
                   /\ t.log.block_number # None /\ t.log.block_hash # None) =>
                  /\ context.tag = "Ok"
                  /\ Len(context.val) = 6
                  /\ context.val[1] = "block #"
                  /\ context.val[3] = " ("
                  /\ context.val[5] = "), transaction "
                  /\ context.val[6] = LowerHex(transaction_id(t)[1])

\* the trigger has what the text is built from
HasContext(t) ==
    /\ transaction_id(t) # None
    /\ t.kind = "Log" =>
          /\ t.log.block_number # None
          /\ AtMostI32Max(t.log.block_number[1])
          /\ t.log.block_hash # None

(***************************************************************************)
(* C13 amended: error_context() returns the empty string for every Block   *)
(* trigger and for every Log or Call trigger without transaction hash; for *)
(* a Call trigger with a transaction hash, and for a Log trigger with a    *)
(* transaction hash, a block hash and a block number of at most 2^31-1, it *)
(* returns the text "block #<n> (<hash>), transaction <tx_hash_hex>" of    *)
(* that trigger's block number, block hash and transaction hash.           *)
(***************************************************************************)
C13_ErrorContextWhenPresent ==
    pc = "rendered" =>
        LET t == triggers[1]
        IN  /\ t.kind = "Block" => context = Ok(EmptyString)
            /\ (t.kind \in {"Log", "Call"} /\ transaction_id(t) = None) =>
                  context = Ok(EmptyString)
            /\ (t.kind = "Call" /\ HasContext(t)) =>
                  context = Ok(<<"block #", t.call.block_number, " (",
                                 Display(t.call.block_hash), "), transaction ",
                                 LowerHex(t.call.transaction_hash[1])>>)
            /\ (t.kind = "Log" /\ HasContext(t)) =>
                  context = Ok(<<"block #",
                                 t.log.block_number[1][3] * (2^16)
                                    + t.log.block_number[1][4],
                                 " (", Display(t.log.block_hash[1]),
                                 "), transaction ",
                                 LowerHex(t.log.transaction_hash[1])>>)

\* the context of a log of block i32::MAX
C13_Witness ==
    /\ pc = "rendered"
    /\ triggers[1].kind = "Log"
    /\ HasContext(triggers[1])
    /\ triggers[1].log.block_number = Some(<<0, 0, 2^15 - 1, 2^16 - 1>>)
    /\ context.tag = "Ok"
    /\ context.val[2] = 2147483647

(***************************************************************************)
(* ProjectionSpec: MappingTrigger::handler_name and ::to_asc_ptr of one    *)
(* mapping trigger on one heap.                                            *)
(***************************************************************************)
\* patch numbers of API versions are 0..MaxPatch
MaxPatch == 4

\* semver::Version of the heap: <<major, minor, patch>>
Versions == (0 .. 1) \X (0 .. 1) \X (0 .. MaxPatch)

\* variant: only the patch numbers compared
version_ge_patch(v, w) == v[3] >= w[3]

\* Version >= Version
version_ge(v, w) ==
    \/ v[1] > w[1]
    \/ v[1] = w[1] /\ v[2] > w[2]
    \/ v[1] = w[1] /\ v[2] = w[2] /\ v[3] >= w[3]

\* the heap: its API version, and whether it has room for a new object
Heaps == [api_version : Versions, full : BOOLEAN]

\* LightEthereumBlock: hash, number and total_difficulty are Options
LightEthereumBlock ==
    [hash : {None, Some("h1")},
     parent_hash : {"parent"},
     uncles_hash : {"uncles"},
     author : {"author"},
     state_root : {"state"},
     transactions_root : {"transactions"},
     receipts_root : {"receipts"},
     number : {None, Some(7)},
     gas_used : {11},
     gas_limit : {12},
     timestamp : {13},
     difficulty : {14},
     total_difficulty : {None, Some(0), Some(15)},
     size : {None, Some(16)}]

\* web3 Transaction: transaction_index is an Option
Transaction ==
    [hash : {"tx"},
     transaction_index : {None, Some(1)},
     from : {"a1"},
     to : {Some("a2")},
     value : {21},
     gas : {22},
     gas_price : {23},
     input : {"input"}]

\* web3 Log, as the projection reads it
ProjectedLog ==
    [address : {"a1"},
     log_index : {None, Some(3)},
     transaction_log_index : {None, Some(1)},
     log_type : {None}]

HandlerNames == {"handleA", "handleB"}

\* enum MappingTrigger { Log { .. }, Call { .. }, Block { .. } }
MappingTrigger ==
    [kind : {"Log"}, block : LightEthereumBlock, transaction : Transaction,
     log : ProjectedLog, params : {<<"p1">>},
     handler : [event : {"Transfer(address)"}, handler : HandlerNames]]
    \cup
    [kind : {"Call"}, block : LightEthereumBlock, transaction : Transaction,
     call : [to : {"a2"}, from : {"a1"}], inputs : {<<"p1">>}, outputs : {<<"p2">>},
     handler : [function : {"transfer()"}, handler : HandlerNames]]
    \cup
    [kind : {"Block"}, block : LightEthereumBlock,
     handler : [filter : {None}, handler : HandlerNames]]

\* variant: the name of the function a call handler is bound to
handler_name_function(m) ==
    IF m.kind = "Call" THEN m.handler.function ELSE m.handler.handler

\* fn handler_name(&self) -> &str
handler_name(m) == m.handler.handler

\* Option::unwrap_or
unwrap_or(o, d) == IF o = None THEN d ELSE unwrap(o)

\* variant: the total difficulty taken from the difficulty
EthereumBlockData_from_difficulty(block) ==
    IF block.hash = None \/ block.number = None THEN Panicked
    ELSE Ok([hash |-> unwrap(block.hash),
             parent_hash |-> block.parent_hash,
             uncles_hash |-> block.uncles_hash,
             author |-> block.author,
             state_root |-> block.state_root,
             transactions_root |-> block.transactions_root,
             receipts_root |-> block.receipts_root,
             number |-> unwrap(block.number),
             gas_used |-> block.gas_used,
             gas_limit |-> block.gas_limit,
             timestamp |-> block.timestamp,
             difficulty |-> block.difficulty,
             total_difficulty |-> block.difficulty,
             size |-> block.size])

\* impl From<&Block<T>> for EthereumBlockData
EthereumBlockData_from(block) ==
    IF block.hash = None \/ block.number = None THEN Panicked
    ELSE Ok([hash |-> unwrap(block.hash),
             parent_hash |-> block.parent_hash,
             uncles_hash |-> block.uncles_hash,
             author |-> block.author,
             state_root |-> block.state_root,
             transactions_root |-> block.transactions_root,
             receipts_root |-> block.receipts_root,
             number |-> unwrap(block.number),
             gas_used |-> block.gas_used,
             gas_limit |-> block.gas_limit,
             timestamp |-> block.timestamp,
             difficulty |-> block.difficulty,
             total_difficulty |-> unwrap_or(block.total_difficulty, 0),
             size |-> block.size])

\* impl From<&Transaction> for EthereumTransactionData
EthereumTransactionData_from(tx) ==
    IF tx.transaction_index = None THEN Panicked
    ELSE Ok([hash |-> tx.hash,
             index |-> unwrap(tx.transaction_index),
             from |-> tx.from,
             to |-> tx.to,
             value |-> tx.value,
             gas_limit |-> tx.gas,
             gas_price |-> tx.gas_price,
             input |-> tx.input])

\* variant: the transaction log index taken from the log's own field
EthereumEventData_own_index(block, transaction, log, params) ==
    [block |-> block,
     transaction |-> transaction,
     address |-> log.address,
     log_index |-> unwrap_or(log.log_index, 0),
     transaction_log_index |-> unwrap_or(log.transaction_log_index, 0),
     log_type |-> log.log_type,
     params |-> params]

\* &EthereumEventData { .. } of a Log trigger
EthereumEventData(block, transaction, log, params) ==
    [block |-> block,
     transaction |-> transaction,
     address |-> log.address,
     log_index |-> unwrap_or(log.log_index, 0),
     transaction_log_index |-> unwrap_or(log.log_index, 0),
     log_type |-> log.log_type,
     params |-> params]

\* EthereumCallData { .. } of a Call trigger
EthereumCallData(block, transaction, call, inputs, outputs) ==
    [to |-> call.to,
     from |-> call.from,
     block |-> block,
     transaction |-> transaction,
     inputs |-> inputs,
     outputs |-> outputs]

\* Err(DeterministicHostError)
HostError == [tag |-> "Err"]

\* asc_new::<Layout>(heap, data)?.erase(): the object written in the layout,
\* or the host error of a heap that cannot take it
asc_new(h, layout, data) ==
    IF h.full THEN HostError ELSE Ok([layout |-> layout, data |-> data])

\* fn to_asc_ptr<H: AscHeap>(self, heap: &mut H)
\*     -> Result<AscPtr<()>, DeterministicHostError>
to_asc_ptr(m, h) ==
    IF m.kind = "Block"
    THEN IF EthereumBlockData_from(m.block) = Panicked THEN Panicked
         ELSE asc_new(h, "AscEthereumBlock", EthereumBlockData_from(m.block).val)
    ELSE IF \/ EthereumBlockData_from(m.block) = Panicked
            \/ EthereumTransactionData_from(m.transaction) = Panicked
    THEN Panicked
    ELSE IF m.kind = "Log"
    THEN asc_new(h,
                 IF version_ge(h.api_version, <<0, 0, 2>>)
                 THEN "AscEthereumEvent<AscEthereumTransaction_0_0_2>"
                 ELSE "AscEthereumEvent<AscEthereumTransaction_0_0_1>",
                 EthereumEventData(EthereumBlockData_from(m.block).val,
                                   EthereumTransactionData_from(m.transaction).val,
                                   m.log, m.params))
    ELSE asc_new(h,
                 IF version_ge(h.api_version, <<0, 0, 3>>)
                 THEN "AscEthereumCall_0_0_3"
                 ELSE "AscEthereumCall",
                 EthereumCallData(EthereumBlockData_from(m.block).val,
                                  EthereumTransactionData_from(m.transaction).val,
                                  m.call, m.inputs, m.outputs))

ProjectionInit ==
    /\ mapping \in MappingTrigger
    /\ heap \in Heaps
    /\ projected = <<>>
    /\ name = <<>>
    /\ pc = "built"
    /\ triggers = <<>>
    /\ OrdIdle /\ EqIdle /\ CtxIdle /\ MainIdle /\ CheckIdle

HandlerName ==
    /\ pc = "built"
    /\ name' = handler_name(mapping)
    /\ pc' = "named"
    /\ UNCHANGED <<triggers, mapping, heap, projected,
                   ordVars, eqVars, ctxVars, mainVars, checkVars>>

ToAscPtr ==
    /\ pc \in {"built", "named"}
    /\ projected' = to_asc_ptr(mapping, heap)
    /\ pc' = "projected"
    /\ UNCHANGED <<triggers, mapping, heap, name,
                   ordVars, eqVars, ctxVars, mainVars, checkVars>>

ProjectionNext == HandlerName \/ ToAscPtr

ProjectionSpec == ProjectionInit /\ [][ProjectionNext]_vars

\* the projection returned a pointer to a written object
Projected == pc = "projected" /\ projected.tag = "Ok"

\* v is at least major.minor.patch, spelled out
AtLeast(v, major, minor, patch) ==
    \/ v[1] > major
    \/ v[1] = major /\ v[2] > minor
    \/ v[1] = major /\ v[2] = minor /\ v[3] >= patch

\* C14: for every API version v of the heap, to_asc_ptr writes a Log trigger
\* in the event layout with the v0.0.2 transaction when v >= 0.0.2 and with
\* the v0.0.1 transaction when v < 0.0.2, a Call trigger in the layout with
\* inputs and outputs when v >= 0.0.3 and in the legacy layout when
\* v < 0.0.3, and a Block trigger in the block layout for every v.
C14_LayoutByVersion ==
    Projected =>
        projected.val.layout =
            CASE mapping.kind = "Log" ->
                     IF AtLeast(heap.api_version, 0, 0, 2)
                     THEN "AscEthereumEvent<AscEthereumTransaction_0_0_2>"
                     ELSE "AscEthereumEvent<AscEthereumTransaction_0_0_1>"
              [] mapping.kind = "Call" ->
                     IF AtLeast(heap.api_version, 0, 0, 3)
                     THEN "AscEthereumCall_0_0_3"
                     ELSE "AscEthereumCall"
              [] mapping.kind = "Block" -> "AscEthereumBlock"

\* a Call trigger projected on a heap of version 0.1.0: the patch number is
\* below 3 and the version is above 0.0.3
C14_Witness ==
    /\ Projected
    /\ mapping.kind = "Call"
    /\ heap.api_version = <<0, 1, 0>>
    /\ projected.val.layout = "AscEthereumCall_0_0_3"

\* C15: a projected Log trigger has, under both layouts, log_index and
\* transaction_log_index equal to the log's log_index, and both zero when the
\* log's log_index is absent.
C15_LogIndexTwice ==
    Projected /\ mapping.kind = "Log" =>
        /\ projected.val.data.log_index =
               (IF mapping.log.log_index = None THEN 0
                ELSE mapping.log.log_index[1])
        /\ projected.val.data.transaction_log_index = projected.val.data.log_index

\* a log with log_index 3 and transaction_log_index 1 projected in the
\* v0.0.1 layout with both indices 3
C15_Witness ==
    /\ Projected
    /\ mapping.kind = "Log"
    /\ mapping.log.log_index = Some(3)
    /\ mapping.log.transaction_log_index = Some(1)
    /\ projected.val.layout = "AscEthereumEvent<AscEthereumTransaction_0_0_1>"
    /\ projected.val.data.log_index = 3
    /\ projected.val.data.transaction_log_index = 3

\* the block data of a projected trigger
BlockDataOf(artifact) ==
    IF artifact.layout = "AscEthereumBlock" THEN artifact.data
    ELSE artifact.data.block

\* C16: the block data converted from a block has the block's
\* total_difficulty when present and zero when absent, and every other
\* field (hash, parent_hash, uncles_hash, author, the three roots, number,
\* gas_used, gas_limit, timestamp, difficulty, size) unchanged.
C16_BlockData ==
    Projected =>
        LET b == mapping.block
            d == BlockDataOf(projected.val)
        IN  /\ d.total_difficulty =
                   (IF b.total_difficulty = None THEN 0 ELSE b.total_difficulty[1])
            /\ Some(d.hash) = b.hash
            /\ Some(d.number) = b.number
            /\ d.parent_hash = b.parent_hash
            /\ d.uncles_hash = b.uncles_hash
            /\ d.author = b.author
            /\ d.state_root = b.state_root
            /\ d.transactions_root = b.transactions_root
            /\ d.receipts_root = b.receipts_root
            /\ d.gas_used = b.gas_used
            /\ d.gas_limit = b.gas_limit
            /\ d.timestamp = b.timestamp
            /\ d.difficulty = b.difficulty
            /\ d.size = b.size

\* a block without total difficulty converted to block data with total
\* difficulty zero and the block's difficulty
C16_Witness ==
    /\ Projected
    /\ mapping.kind = "Block"
    /\ mapping.block.total_difficulty = None
    /\ projected.val.data.total_difficulty = 0
    /\ projected.val.data.difficulty = 14

\* a required field of the trigger is missing
MissingRequiredField(m) ==
    \/ m.block.hash = None
    \/ m.block.number = None
    \/ m.kind # "Block" /\ m.transaction.transaction_index = None

\* C18: when the projection meets a missing required field (a block without
\* hash or number, a transaction without index), to_asc_ptr returns a
\* deterministic host error and no pointer.
C18_MissingFieldIsHostError ==
    pc = "projected" /\ MissingRequiredField(mapping) => projected = HostError

\* C19: handler_name returns, for a Log, a Call and a Block trigger, the
\* handler name of the trigger's own handler descriptor, whatever the block,
\* transaction, log, call and parameters are.
C19_HandlerName ==
    pc = "named" =>
        /\ mapping.kind \in {"Log", "Call", "Block"}
        /\ name = mapping.handler.handler
        /\ name \in HandlerNames

\* the name of a Call trigger whose handler is bound to transfer()
C19_Witness ==
    /\ pc = "named"
    /\ mapping.kind = "Call"
    /\ mapping.handler.function = "transfer()"
    /\ name = "handleB"

(***************************************************************************)
(* MainSpec: the start of the block ingestors and of the block stream      *)
(* builder in main, with the lazy statics REORG_THRESHOLD and              *)
(* ANCESTOR_COUNT read from the environment.                               *)
(***************************************************************************)
\* environment values have at most MaxEnvLen characters
MaxEnvLen == 2

\* .unwrap_or(50) of REORG_THRESHOLD
DefaultReorgThreshold == 50

\* .unwrap_or(50) of ANCESTOR_COUNT
DefaultAncestorCount == 50

EnvChars == {"0", "5", "x", "+"}

\* env::var(..).ok(): None when unset, else the string
EnvValues ==
    {None} \cup {Some(s) : s \in UNION {[1 .. n -> EnvChars] : n \in 0 .. MaxEnvLen}}

\* names of the ethereum chains of the network registry
ChainNames == {"mainnet", "ropsten"}

IsDigit(c) == c \in {"0", "5"}

DigitValue(c) == IF c = "0" THEN 0 ELSE 5

RECURSIVE digits_value(_)
\* the number written by a sequence of digits
digits_value(s) ==
    IF s = <<>> THEN 0
    ELSE 10 * digits_value(SubSeq(s, 1, Len(s) - 1)) + DigitValue(s[Len(s)])

\* Err(ParseIntError)
ParseIntError == [tag |-> "ParseIntError"]

\* u64::from_str(&s): an optional plus sign, then one or more digits
u64_from_str(s) ==
    LET d == IF s # <<>> /\ s[1] = "+" THEN Tail(s) ELSE s
    IN  IF d = <<>> \/ (\E i \in 1 .. Len(d) : ~IsDigit(d[i]))
        THEN ParseIntError
        ELSE Ok(digits_value(d))

\* env::var(..).ok().map(|s| u64::from_str(&s).unwrap_or_else(|_| panic!(..)))
\*     .unwrap_or(default)
lazy_static(e, default) ==
    IF e = None THEN Ok(default)
    ELSE IF u64_from_str(unwrap(e)) = ParseIntError THEN Panicked
    ELSE u64_from_str(unwrap(e))

\* variant: the comparison the other way round
enough_ancestors_reversed(ancestor_count, reorg_threshold) ==
    reorg_threshold >= ancestor_count

\* *ANCESTOR_COUNT >= *REORG_THRESHOLD
enough_ancestors(ancestor_count, reorg_threshold) ==
    ancestor_count >= reorg_threshold

MainInit ==
    /\ config \in [ETHEREUM_REORG_THRESHOLD : EnvValues,
                   ETHEREUM_ANCESTOR_COUNT : EnvValues,
                   disable_block_ingestor : BOOLEAN,
                   chains : SUBSET ChainNames]
    /\ statics = [REORG_THRESHOLD |-> None, ANCESTOR_COUNT |-> None]
    /\ ingestors = {}
    /\ pc = "main"
    /\ triggers = <<>>
    /\ OrdIdle /\ EqIdle /\ CtxIdle /\ ProjIdle /\ CheckIdle

\* assert!(*ANCESTOR_COUNT >= *REORG_THRESHOLD) under !disable_block_ingestor
AssertAncestorCount ==
    /\ pc = "main"
    /\ ~config.disable_block_ingestor
    /\ LET a == lazy_static(config.ETHEREUM_ANCESTOR_COUNT, DefaultAncestorCount)
           r == lazy_static(config.ETHEREUM_REORG_THRESHOLD, DefaultReorgThreshold)
       IN  IF a = Panicked
           THEN pc' = "panicked" /\ statics' = statics
           ELSE IF r = Panicked
           THEN /\ pc' = "panicked"
                /\ statics' = [statics EXCEPT !.ANCESTOR_COUNT = Some(a.val)]
           ELSE /\ statics' = [REORG_THRESHOLD |-> Some(r.val),
                               ANCESTOR_COUNT |-> Some(a.val)]
                /\ pc' = IF enough_ancestors(a.val, r.val)
                         THEN "ingestors" ELSE "panicked"
    /\ UNCHANGED <<triggers, config, ingestors,
                   ordVars, eqVars, ctxVars, projVars, checkVars>>

\* BlockIngestor::new(.., *ANCESTOR_COUNT, ..) and graph::spawn for one chain
StartBlockIngestor ==
    /\ pc = "ingestors"
    /\ \E chain \in config.chains :
          /\ \A i \in ingestors : i.chain # chain
          /\ ingestors' = ingestors \cup
                 {[chain |-> chain, ancestor_count |-> unwrap(statics.ANCESTOR_COUNT)]}
    /\ UNCHANGED <<triggers, pc, config, statics,
                   ordVars, eqVars, ctxVars, projVars, checkVars>>

\* BlockStreamBuilder::new(.., *REORG_THRESHOLD, ..)
NewBlockStreamBuilder ==
    /\ \/ pc = "main" /\ config.disable_block_ingestor
       \/ pc = "ingestors" /\ {i.chain : i \in ingestors} = config.chains
    /\ LET r == lazy_static(config.ETHEREUM_REORG_THRESHOLD, DefaultReorgThreshold)
       IN  IF r = Panicked
           THEN pc' = "panicked" /\ statics' = statics
           ELSE /\ pc' = "streams"
                /\ statics' = [statics EXCEPT !.REORG_THRESHOLD = Some(r.val)]
    /\ UNCHANGED <<triggers, config, ingestors,
                   ordVars, eqVars, ctxVars, projVars, checkVars>>

MainNext == AssertAncestorCount \/ StartBlockIngestor \/ NewBlockStreamBuilder

MainSpec == MainInit /\ [][MainNext]_vars

\* the environment value is unset or written as a number
Parses(e) ==
    \/ e = None
    \/ /\ e[1] # <<>>
       /\ e[1] # <<"+">>
       /\ \A i \in 1 .. Len(e[1]) : e[1][i] \in {"0", "5"} \/ (i = 1 /\ e[1][i] = "+")

\* C20: block ingestors are started only when the block ingestor is not
\* disabled and the ancestor count is at least the reorg threshold, each 50
\* when its environment variable is unset: wherever an ingestor exists,
\* ANCESTOR_COUNT >= REORG_THRESHOLD; when the ingestor is disabled the
\* comparison is not made, no ingestor is started, and startup goes on to
\* the block stream builder.
C20_IngestorsOnlyWithEnoughAncestors ==
    /\ ingestors # {} =>
          /\ ~config.disable_block_ingestor
          /\ statics.ANCESTOR_COUNT # None /\ statics.REORG_THRESHOLD # None
          /\ statics.ANCESTOR_COUNT[1] >= statics.REORG_THRESHOLD[1]
          /\ \A i \in ingestors : i.ancestor_count = statics.ANCESTOR_COUNT[1]
          /\ config.ETHEREUM_ANCESTOR_COUNT = None => statics.ANCESTOR_COUNT[1] = 50
          /\ config.ETHEREUM_REORG_THRESHOLD = None => statics.REORG_THRESHOLD[1] = 50
          /\ config.ETHEREUM_ANCESTOR_COUNT = Some(<<"5">>) => statics.ANCESTOR_COUNT[1] = 5
          /\ config.ETHEREUM_REORG_THRESHOLD = Some(<<"5", "5">>) => statics.REORG_THRESHOLD[1] = 55
    /\ config.disable_block_ingestor =>
          /\ ingestors = {}
          /\ statics.ANCESTOR_COUNT = None
          /\ pc = "panicked" => ~Parses(config.ETHEREUM_REORG_THRESHOLD)
          /\ pc \in {"main", "streams", "panicked"}

\* an ingestor started with the default ancestor count 50 against a reorg
\* threshold of 50 read from the environment, before the block stream builder
C20_Witness ==
    /\ ingestors # {}
    /\ ~config.disable_block_ingestor
    /\ config.ETHEREUM_ANCESTOR_COUNT = None
    /\ config.ETHEREUM_REORG_THRESHOLD = Some(<<"5", "0">>)
    /\ statics.ANCESTOR_COUNT = Some(50)
    /\ statics.REORG_THRESHOLD = Some(50)
    /\ pc = "streams"

(***************************************************************************)
(* C22: for all triggers a and b of one block, cmp(a, b) is the reverse of *)
(* cmp(b, a): Less with Greater, Equal with Equal, also when one is a Call *)
(* and the other a Log.                                                    *)
(***************************************************************************)
Reverse(o) ==
    CASE o = "Less" -> "Greater"
      [] o = "Greater" -> "Less"
      [] o = "Equal" -> "Equal"
      [] OTHER -> "None"

C22_Antisymmetric ==
    Compared =>
        \A i, j \in DOMAIN triggers :
            OneBlock({triggers[i], triggers[j]}) =>
                /\ ord[i][j] \in Ordering
                /\ ord[j][i] = Reverse(ord[i][j])

\* a Call and a Log of the same transaction, compared in both orders
C22_Witness ==
    /\ Compared
    /\ triggers[1].kind = "Call" /\ triggers[2].kind = "Log"
    /\ OneBlock({triggers[1], triggers[2]})
    /\ triggers[2].log.transaction_index = Some(triggers[1].call.transaction_index)
    /\ ord[1][2] = "Greater"
    /\ ord[2][1] = "Less"

(***************************************************************************)
(* EqOrdSpec: three arbitrary triggers are compared pairwise and then      *)
(* tested pairwise for equality.                                           *)
(***************************************************************************)
EqOrdNext == Compare \/ Equate

EqOrdSpec == Init /\ [][EqOrdNext]_vars

\* the triggers have been compared and tested for equality
ComparedAndEquated == pc = "equated" /\ ord # <<>>

(***************************************************************************)
(* C23: for all triggers a and b, if a equals b then cmp(a, b) is Equal;   *)
(* and trigger equality is reflexive, symmetric and transitive.            *)
(***************************************************************************)
C23_EqConsistentWithOrder ==
    ComparedAndEquated =>
        /\ \A i, j \in DOMAIN triggers : equal[i][j] => ord[i][j] = "Equal"
        /\ \A i \in DOMAIN triggers : equal[i][i]
        /\ \A i, j \in DOMAIN triggers : equal[i][j] => equal[j][i]
        /\ \A i, j, k \in DOMAIN triggers :
              equal[i][j] /\ equal[j][k] => equal[i][k]

\* three different logs of one transaction hash and log index, pairwise
\* equal and pairwise compared Equal
C23_Witness ==
    /\ ComparedAndEquated
    /\ \A i \in DOMAIN triggers : triggers[i].kind = "Log"
    /\ triggers[1] # triggers[2] /\ triggers[2] # triggers[3] /\ triggers[1] # triggers[3]
    /\ \A i, j \in DOMAIN triggers : equal[i][j] /\ ord[i][j] = "Equal"

(***************************************************************************)
(* CheckerSpec: the contention checker of main.  A thread sends a ping     *)
(* with a fresh pong channel to a task of the tokio threadpool and waits   *)
(* for the pong with a growing timeout; the task answers each ping at a    *)
(* time of its own.  Durations are in milliseconds.                        *)
(***************************************************************************)
\* the thread sends at most MaxPings pings
MaxPings == 2

\* at most MaxWaits waits for one pong time out
MaxWaits == 5

\* Duration::from_millis(10): the timeout of the first wait for a pong
FirstTimeoutMillis == 10

\* Duration::from_secs(10): the timeout that is not raised any more
LastTimeoutSecs == 10

\* timeout *= 10
TimeoutFactor == 10

from_millis(ms) == ms

from_secs(secs) == 1000 * secs

\* variant: raised also at ten seconds
raised_timeout_at_ten(t) ==
    IF t <= from_secs(LastTimeoutSecs) THEN t * TimeoutFactor ELSE t

\* if timeout < Duration::from_secs(10) { timeout *= 10 }
raised_timeout(t) ==
    IF t < from_secs(LastTimeoutSecs) THEN t * TimeoutFactor ELSE t

\* the else branch: } else if var_os("GRAPH_KILL_IF_UNRESPONSIVE").is_some()
kills(t, kill) == ~(t < from_secs(LastTimeoutSecs)) /\ kill

CheckerInit ==
    /\ pc = "sleeping"
    /\ timeout = None
    /\ pong = None
    /\ pings = 0
    /\ waits = 0
    /\ kill_if_unresponsive \in BOOLEAN
    /\ triggers = <<>>
    /\ OrdIdle /\ EqIdle /\ CtxIdle /\ ProjIdle /\ MainIdle

\* after the sleep: a new pong channel is sent as the ping, and the timeout
\* starts anew; the thread ends when the ping cannot be sent
SendPing ==
    /\ pc = "sleeping"
    /\ pings < MaxPings
    /\ \E is_err \in BOOLEAN :
          IF is_err
          THEN pc' = "stopped" /\ UNCHANGED checkVars
          ELSE /\ pc' = "waiting"
               /\ pong' = "pending"
               /\ timeout' = from_millis(FirstTimeoutMillis)
               /\ pings' = pings + 1
               /\ waits' = 0
               /\ UNCHANGED kill_if_unresponsive
    /\ UNCHANGED <<triggers, ordVars, eqVars, ctxVars, projVars, mainVars>>

\* the task of the threadpool: pong_send.clone().send(())
SendPong ==
    /\ pc \in {"waiting", "timed_out"}
    /\ pong = "pending"
    /\ pong' = "sent"
    /\ UNCHANGED <<triggers, pc, timeout, pings, waits, kill_if_unresponsive,
                   ordVars, eqVars, ctxVars, projVars, mainVars>>

\* the ping is dropped unanswered with the task
DropPong ==
    /\ pc \in {"waiting", "timed_out"}
    /\ pong = "pending"
    /\ pong' = "disconnected"
    /\ UNCHANGED <<triggers, pc, timeout, pings, waits, kill_if_unresponsive,
                   ordVars, eqVars, ctxVars, projVars, mainVars>>

\* pong_receive.recv_timeout(timeout) == Err(RecvTimeoutError::Timeout)
RecvTimeout ==
    /\ pc = "waiting"
    /\ pong = "pending"
    /\ waits < MaxWaits
    /\ waits' = waits + 1
    /\ pc' = "timed_out"
    /\ UNCHANGED <<triggers, timeout, pong, pings, kill_if_unresponsive,
                   ordVars, eqVars, ctxVars, projVars, mainVars>>

\* the body of the while loop after a timed-out wait
RaiseOrAbort ==
    /\ pc = "timed_out"
    /\ timeout' = raised_timeout(timeout)
    /\ pc' = IF kills(timeout, kill_if_unresponsive) THEN "aborted" ELSE "waiting"
    /\ UNCHANGED <<triggers, pong, pings, waits, kill_if_unresponsive,
                   ordVars, eqVars, ctxVars, projVars, mainVars>>

\* recv_timeout returns the pong, or Err(Disconnected): the while loop ends
\* and the timeout goes out of scope
RecvPong ==
    /\ pc = "waiting"
    /\ pong \in {"sent", "disconnected"}
    /\ pong' = IF pong = "sent" THEN "received" ELSE pong
    /\ timeout' = None
    /\ pc' = "sleeping"
    /\ UNCHANGED <<triggers, pings, waits, kill_if_unresponsive,
                   ordVars, eqVars, ctxVars, projVars, mainVars>>

CheckerNext ==
    SendPing \/ SendPong \/ DropPong \/ RecvTimeout \/ RaiseOrAbort \/ RecvPong

CheckerSpec == CheckerInit /\ [][CheckerNext]_vars

\* the thread is in the while loop of a ping, or has aborted the process
InWait == pc \in {"waiting", "timed_out", "aborted"}

\* the timeout in milliseconds after n raises
TimeoutAfter(n) ==
    CASE n = 0 -> 10
      [] n = 1 -> 100
      [] n = 2 -> 1000
      [] OTHER -> 10000

\* the timeout starts at 10 ms and is raised tenfold by each timed-out wait
\* while it is below 10 s
TimeoutLadder ==
    /\ InWait => timeout \in {10, 100, 1000, 10000}
    /\ pc = "waiting" => timeout = TimeoutAfter(waits)
    /\ pc = "timed_out" => timeout = TimeoutAfter(waits - 1)

(***************************************************************************)
(* C21: the timeout of the wait for one pong starts at 10 ms and is        *)
(* multiplied by 10 after each timed-out wait only while it is below 10 s, *)
(* so it is 10 ms, 100 ms, 1 s or 10 s; the process is aborted only in a   *)
(* state where the pong has not arrived, the timeout has reached 10 s and  *)
(* GRAPH_KILL_IF_UNRESPONSIVE is set; and the timeout is 10 ms again for   *)
(* the next ping.                                                          *)
(***************************************************************************)
C21_AbortOnlyWithoutPong ==
    /\ TimeoutLadder
    /\ pc = "aborted" =>
          /\ pong \notin {"sent", "received"}
          /\ timeout = 10000
          /\ kill_if_unresponsive

(***************************************************************************)
(* C21, amended: the same timeouts; the process is aborted only after a    *)
(* wait with the timeout of 10 s has timed out, with                       *)
(* GRAPH_KILL_IF_UNRESPONSIVE set and the pong not received by the         *)
(* checker, though the pong may have been sent since that wait ended.      *)
(***************************************************************************)
C21_AbortOnlyAfterTimedOutWait ==
    /\ TimeoutLadder
    /\ pc = "aborted" =>
          /\ pong # "received"
          /\ timeout = 10000
          /\ waits >= 4
          /\ kill_if_unresponsive

\* the second ping, after a first one that was answered: the process is
\* aborted after its fourth timed-out wait, the pong sent in the meantime
C21_Witness ==
    /\ pc = "aborted"
    /\ pings = 2
    /\ waits = 4
    /\ timeout = 10000
    /\ pong = "sent"
    /\ kill_if_unresponsive
====
